---------------------------- MODULE Spec2Model ----------------------------
(***************************************************************************)
(* The radial flow of pyro/distributions/transforms/radial.py:             *)
(* ConditionedRadial (forward map, log|det J| and the one-entry cache      *)
(* inherited from torch.distributions.Transform with cache_size=1),        *)
(* Radial (the same engine with learnable parameters) and                  *)
(* ConditionalRadial.condition (a fresh engine per context).               *)
(*                                                                         *)
(* Tensors are objects with an identity and a value.  An object is a       *)
(* position of the heap; its value is heap[object].  The cache compares    *)
(* objects (Python `is`), never values.                                    *)
(*                                                                         *)
(* Tensor entries are fixed-point numbers: the integer n stands for        *)
(* n / Scale.  exp and log1p are rounded to the nearest grid point, so     *)
(* that, as in IEEE arithmetic, exp of a very negative number is 0.        *)
(***************************************************************************)
EXTENDS Integers, Sequences, FiniteSets, TLC

VARIABLES
    heap,    \* object -> value: the tensors that exist
    insts,   \* the transform instances, in the order of their construction
    last     \* the most recent call on an instance and what it gave back

vars == <<heap, insts, last>>

-----------------------------------------------------------------------------
(* Bounds of the model *)

\* forward evaluations (_call) in one behaviour: each allocates one tensor
MaxCalls == 2
\* ConditionedRadial instances that condition() returns in one behaviour
MaxInsts == 2

-----------------------------------------------------------------------------
(* Fixed-point arithmetic *)

\* grid points per unit
Scale == 2 * 2 * 2

\* n / d rounded to the nearest integer (d > 0)
Rnd(n, d) == (2 * n + d) \div (2 * d)

\* product of two fixed-point numbers
Mul(a, b) == Rnd(a * b, Scale)

\* Scale * exp(k / Scale), rounded, for k = -4*Scale .. Scale
ExpTable ==
    <<   0,   0,   0,   0,   0,   0,   0,   0,   0,   0,
         1,   1,   1,   1,   1,   1,   1,   1,   1,   2,
         2,   2,   2,   3,   3,   3,   4,   4,   5,   5,
         6,   7,   8,   9,  10,  12,  13,  15,  17,  19,
        22 >>

\* Scale * log(1 + k / Scale), rounded, for k = -(Scale-1) .. 22
Log1pTable ==
    << -17, -11,  -8,  -6,  -4,  -2,  -1,   0,   1,   2,
         3,   3,   4,   4,   5,   6,   6,   6,   7,   7,
         8,   8,   8,   9,   9,   9,  10,  10,  10,  11 >>

Exp(a) == ExpTable[a + 4 * Scale + 1]

Log1p(a) == Log1pTable[a + Scale]

\* F.softplus(a) = log(1 + exp(a)); its linear branch (a > 20) lies outside
\* the parameters used here
Softplus(a) == Log1p(Exp(a))

\* t.reciprocal()
Reciprocal(a) == Rnd(Scale * Scale, a)

RECURSIVE SumSq(_)
SumSq(v) == IF v = <<>> THEN 0 ELSE Head(v) * Head(v) + SumSq(Tail(v))

\* v.norm(dim=-1, keepdim=True), rounded down
Norm(v) ==
    LET n == SumSq(v)
    IN  CHOOSE k \in 0..(4 * Scale) : k * k <= n /\ n < (k + 1) * (k + 1)

-----------------------------------------------------------------------------
(* Tensors handed in by the callers *)

\* the input tensors: objects 1 and 2 are distinct objects of equal value
InputVal == << <<Scale, 0>>, <<Scale, 0>>, <<0, Scale>> >>

Inputs == DOMAIN InputVal

\* the object reference None
None == 0

\* _cached_logDetJ = None
NoLogDet == <<>>

\* 1. / math.sqrt(n) on the grid, rounded down
Stdv(n) ==
    CHOOSE k \in 0..Scale : k * k * n <= Scale * Scale
                            /\ Scale * Scale < (k + 1) * (k + 1) * n

-----------------------------------------------------------------------------
(* ConditionedRadial *)

\* ConditionedRadial.__init__: the parameters as given and an empty cache
ConditionedRadial(x0, alpha_prime, beta_prime, kind) ==
    [ kind           |-> kind,
      x0             |-> x0,
      alpha_prime    |-> alpha_prime,
      beta_prime     |-> beta_prime,
      cached_x_y     |-> <<None, None>>,
      cached_logDetJ |-> NoLogDet ]

\* alpha = F.softplus(self.alpha_prime)
Alpha(t) == Softplus(t.alpha_prime)

\* beta = -alpha + F.softplus(self.beta_prime)
Beta(t) == -Alpha(t) + Softplus(t.beta_prime)

\* ConditionedRadial._call on a tensor of value xv: the output value and the
\* log|det J| it leaves in _cached_logDetJ
Call(t, xv) ==
    LET alpha   == Alpha(t)
        beta    == Beta(t)
        diff    == [k \in DOMAIN xv |-> xv[k] - t.x0[k]]
        r       == Norm(diff)
        h       == Reciprocal(alpha + r)
        h_prime == -Mul(h, h)
        beta_h  == Mul(beta, h)
    IN  [ logDetJ |-> (Len(t.x0) - 1) * Log1p(beta_h)
                      + Log1p(beta_h + Mul(Mul(beta, h_prime), r)),
          y       |-> [k \in DOMAIN xv |-> xv[k] + Mul(beta_h, diff[k])] ]

\* A faulty IsSame: tensors compared by value (`==`), not by identity
SameValue(a, b) ==
    \/ a = b
    \/ a \in DOMAIN heap /\ b \in DOMAIN heap /\ heap[a] = heap[b]

\* `a is b` on two object references
IsSame(a, b) == a = b

\* A faulty TransformCall: the (x, y) pair is not stored (cache_size = 0)
TransformCallNoStore(t, x) ==
    LET res == Call(t, heap[x])
    IN  [ t      |-> [t EXCEPT !.cached_logDetJ = <<res.logDetJ>>],
          y      |-> Len(heap) + 1,
          made   |-> <<res.y>>,
          called |-> TRUE ]

\* Transform.__call__ with cache_size = 1, as ConditionedRadial inherits it:
\* the cached output when x is the cached input, else _call and a new entry.
\* The new output is the next object of the heap.
TransformCall(t, x) ==
    LET x_old == t.cached_x_y[1]
        y_old == t.cached_x_y[2]
    IN  IF IsSame(x, x_old)
        THEN [t |-> t, y |-> y_old, made |-> <<>>, called |-> FALSE]
        ELSE LET res == Call(t, heap[x])
                 y   == Len(heap) + 1
             IN  [ t      |-> [t EXCEPT !.cached_logDetJ = <<res.logDetJ>>,
                                        !.cached_x_y = <<x, y>>],
                   y      |-> y,
                   made   |-> <<res.y>>,
                   called |-> TRUE ]

\* A faulty Inverse: hands y back instead of raising
InverseEcho(t, y) == [raised |-> "", x |-> y]

\* ConditionedRadial._inverse: raises, whatever y is
Inverse(t, y) == [raised |-> "KeyError", x |-> None]

\* A faulty InvCall: the cache is not consulted (cache_size = 0)
InvCallNoCache(t, y) == [raised |-> "KeyError", x |-> None]

\* Transform._inv_call with cache_size = 1 (what t.inv(y) runs): the cached
\* input when y is the cached output, else _inverse
InvCall(t, y) ==
    LET x_old == t.cached_x_y[1]
        y_old == t.cached_x_y[2]
    IN  IF IsSame(y, y_old)
        THEN [raised |-> "", x |-> x_old]
        ELSE Inverse(t, y)

\* A faulty LogAbsDetJ: _call runs on every request, hit or not
LogAbsDetJRecompute(t, x, y) ==
    LET res == Call(t, heap[x])
        t2  == [t EXCEPT !.cached_logDetJ = <<res.logDetJ>>,
                         !.cached_x_y = <<x, Len(heap) + 1>>]
    IN  [ t      |-> t2,
          made   |-> <<res.y>>,
          fwd    |-> TRUE,
          called |-> TRUE,
          logdet |-> t2.cached_logDetJ ]

\* A faulty LogAbsDetJ: the stored value is returned without the identity
\* test, so a request for another x gets the value of the cached one
LogAbsDetJStale(t, x, y) ==
    [ t      |-> t,
      made   |-> <<>>,
      fwd    |-> FALSE,
      called |-> FALSE,
      logdet |-> t.cached_logDetJ ]

\* ConditionedRadial.log_abs_det_jacobian
LogAbsDetJ(t, x, y) ==
    LET x_old == t.cached_x_y[1]
        y_old == t.cached_x_y[2]
        miss  == ~IsSame(x, x_old) \/ ~IsSame(y, y_old)
        r     == IF miss THEN TransformCall(t, x)
                 ELSE [t |-> t, y |-> None, made |-> <<>>, called |-> FALSE]
    IN  [ t      |-> r.t,
          made   |-> r.made,
          fwd    |-> miss,
          called |-> r.called,
          logdet |-> r.t.cached_logDetJ ]

-----------------------------------------------------------------------------
(* ConditionalRadial *)

\* self.nn(context): the parameter network, one row per context.  Its
\* outputs are unconstrained reals.
NN ==
    << [x0 |-> <<0, 0>>,   alpha_prime |-> 0,          beta_prime |-> Scale],
       [x0 |-> <<-5, 5>>,  alpha_prime |-> -4 * Scale, beta_prime |-> 0] >>

Contexts == DOMAIN NN

\* ConditionalRadial.condition(context)
NewConditioned(context) ==
    LET p == NN[context]
    IN  ConditionedRadial(p.x0, p.alpha_prime, p.beta_prime, "ConditionedRadial")

-----------------------------------------------------------------------------
(* Radial *)

\* the values reset_parameters may draw: uniform in [-stdv, stdv]
InitScalars(n) == {-Stdv(n), Stdv(n)}

InitCenters(n) == {<<-Stdv(n), Stdv(n)>>}

\* the values a training step may leave in the parameters
TrainScalars == {0, Scale}

TrainCenters == {<<0, 0>>}

-----------------------------------------------------------------------------
(* The state machine *)

\* What a call was given (x, y), what it gave back (ret: a tensor, logdet: a
\* log|det J|, raised: an exception), whether it went through the transform's
\* __call__ (fwd) and through _call (called), and the instance's cache as
\* the call found it (old, oldLogDet).
Event(op, i, x, y, ret, logdet, raised, fwd, called, t) ==
    [ op |-> op, inst |-> i, x |-> x, y |-> y, ret |-> ret, logdet |-> logdet,
      raised |-> raised, fwd |-> fwd, called |-> called,
      old |-> t.cached_x_y, oldLogDet |-> t.cached_logDetJ ]

\* for an event that is no call on an instance
NoCache == [cached_x_y |-> <<None, None>>, cached_logDetJ |-> NoLogDet]

\* a ConditionalRadial has been built around NN; no engine exists yet
Init ==
    /\ heap = InputVal
    /\ insts = <<>>
    /\ last = Event("init", None, None, None, None, NoLogDet, "", FALSE, FALSE,
                    NoCache)

\* radial(input_dim) with input_dim = 2: a Radial after reset_parameters
InitRadial ==
    /\ heap = InputVal
    /\ \E x0 \in InitCenters(2), a \in InitScalars(2), b \in InitScalars(2) :
           insts = << ConditionedRadial(x0, a, b, "Radial") >>
    /\ last = Event("init", 1, None, None, None, NoLogDet, "", FALSE, FALSE,
                    NoCache)

\* a forward evaluation needs room for its output
Room(r) == r.called => Len(heap) < Len(InputVal) + MaxCalls

\* y = t(x)
Forward(i, x) ==
    LET r == TransformCall(insts[i], x)
    IN  /\ Room(r)
        /\ heap' = heap \o r.made
        /\ insts' = [insts EXCEPT ![i] = r.t]
        /\ last' = Event("forward", i, x, None, r.y, NoLogDet, "", TRUE, r.called,
                         insts[i])

\* t.log_abs_det_jacobian(x, y)
LogAbsDetJacobian(i, x, y) ==
    LET r == LogAbsDetJ(insts[i], x, y)
    IN  /\ Room(r)
        /\ heap' = heap \o r.made
        /\ insts' = [insts EXCEPT ![i] = r.t]
        /\ last' = Event("ladj", i, x, y, None, r.logdet, "", r.fwd, r.called,
                         insts[i])

\* x = t.inv(y)
Inv(i, y) ==
    LET r == InvCall(insts[i], y)
    IN  /\ last' = Event("inv", i, None, y, r.x, NoLogDet, r.raised, FALSE, FALSE,
                         insts[i])
        /\ UNCHANGED <<heap, insts>>

\* A faulty Condition: the engine built for a context is kept and handed
\* out again, cache and all, when the same context comes back
ConditionMemo(context) ==
    LET same == {j \in DOMAIN insts : insts[j] = [NewConditioned(context) EXCEPT
                     !.cached_x_y = insts[j].cached_x_y,
                     !.cached_logDetJ = insts[j].cached_logDetJ]}
    IN  IF same # {}
        THEN /\ last' = Event("condition", CHOOSE j \in same : TRUE, None, None,
                              None, NoLogDet, "", FALSE, FALSE, NoCache)
             /\ UNCHANGED <<heap, insts>>
        ELSE /\ Len(insts) < MaxInsts
             /\ insts' = Append(insts, NewConditioned(context))
             /\ last' = Event("condition", Len(insts) + 1, None, None, None,
                              NoLogDet, "", FALSE, FALSE, NoCache)
             /\ UNCHANGED heap

\* t = conditional_radial.condition(context)
Condition(context) ==
    /\ Len(insts) < MaxInsts
    /\ insts' = Append(insts, NewConditioned(context))
    /\ last' = Event("condition", Len(insts) + 1, None, None, None, NoLogDet,
                     "", FALSE, FALSE, NoCache)
    /\ UNCHANGED heap

\* an optimizer step on the Radial module's parameters
UpdateParameters(i, x0, a, b) ==
    /\ insts[i].kind = "Radial"
    /\ insts' = [insts EXCEPT ![i].x0 = x0, ![i].alpha_prime = a,
                              ![i].beta_prime = b]
    /\ last' = Event("update", i, None, None, None, NoLogDet, "", FALSE, FALSE,
                     NoCache)
    /\ UNCHANGED heap

\* the tensors a caller passes as y to instance i: the output the instance
\* has cached, if any, and a tensor that is no output of it.  The code tells
\* tensors apart by `y is y_old` alone.
Outputs(i) == ({insts[i].cached_x_y[2]} \ {None}) \cup {Len(InputVal)}

Calls ==
    \/ \E i \in DOMAIN insts, x \in Inputs : Forward(i, x)
    \/ \E i \in DOMAIN insts, x \in Inputs : \E y \in Outputs(i) :
           LogAbsDetJacobian(i, x, y)
    \/ \E i \in DOMAIN insts : \E y \in Outputs(i) : Inv(i, y)

Next ==
    \/ Calls
    \/ \E c \in Contexts : Condition(c)

NextRadial ==
    \/ Calls
    \/ \E i \in DOMAIN insts, x0 \in TrainCenters, a \in TrainScalars,
          b \in TrainScalars : UpdateParameters(i, x0, a, b)

\* a ConditionalRadial and the engines it returns; their parameters are fixed
Spec == Init /\ [][Next]_vars

\* one Radial module, trained between calls
SpecRadial == InitRadial /\ [][NextRadial]_vars

-----------------------------------------------------------------------------
(* What the claims speak of *)

CachedX(t) == t.cached_x_y[1]

CachedY(t) == t.cached_x_y[2]

Empty(t) == t.cached_x_y = <<None, None>> /\ t.cached_logDetJ = NoLogDet

\* the instance the last call was made on
Callee == insts[last.inst]

IsCall == last.op \in {"forward", "ladj", "inv"}

\* log|det J| of the forward map of t at tensor x, from t's present parameters
LogDetAt(t, x) == <<Call(t, heap[x]).logDetJ>>

\* the value of the forward map of t at tensor x
ValueAt(t, x) == Call(t, heap[x]).y

\* the entry of t is empty, or its three parts belong to one evaluation
OneEvaluation(t) ==
    \/ Empty(t)
    \/ /\ CachedX(t) \in Inputs
       /\ CachedY(t) \in DOMAIN heap \ Inputs
       /\ heap[CachedY(t)] = ValueAt(t, CachedX(t))
       /\ t.cached_logDetJ = LogDetAt(t, CachedX(t))

-----------------------------------------------------------------------------
(* Claims *)

\* C1: log_abs_det_jacobian(x, y) with the very pair the cache holds returns
\* the stored log-determinant, does not run _call, and leaves the entry as
\* it was.
C1_CacheHit ==
    (last.op = "ladj" /\ last.old = <<last.x, last.y>>)
        => /\ ~last.called
           /\ last.logdet = last.oldLogDet
           /\ last.logdet # NoLogDet
           /\ Callee.cached_x_y = last.old
           /\ Callee.cached_logDetJ = last.oldLogDet

\* a hit, after the parameters of the module have changed
C1_Witness ==
    /\ last.op = "ladj"
    /\ last.old = <<last.x, last.y>>
    /\ last.logdet # LogDetAt(Callee, last.x)

\* C2 (as claimed): log_abs_det_jacobian(x, y) with a pair that is not the
\* cached pair (x, or y, or both differ) runs _call on x again and refreshes
\* the entry before it returns.
C2_MissReexecutes ==
    (last.op = "ladj" /\ last.old # <<last.x, last.y>>)
        => /\ last.called
           /\ CachedX(Callee) = last.x
           /\ CachedY(Callee) # last.old[2]

\* C3 (as claimed): inverse raises KeyError for every y in every state.
C3_InverseAlwaysRaises ==
    last.op = "inv" => last.raised = "KeyError"

\* C3 (amended): inverse raises KeyError, returns nothing and leaves the
\* cache alone whenever y is not the tensor cached as the latest output;
\* that covers every y while the cache is empty.
C3_InverseRaisesOffCache ==
    (last.op = "inv" /\ last.y # last.old[2])
        => /\ last.raised = "KeyError"
           /\ last.ret = None
           /\ Callee.cached_x_y = last.old
           /\ Callee.cached_logDetJ = last.oldLogDet

\* inverse of a foreign tensor on an instance whose cache holds a pair
C3_Witness ==
    /\ last.op = "inv"
    /\ last.old[2] # None
    /\ last.y # last.old[2]
    /\ last.raised = "KeyError"

\* C4: while the cache holds the pair (x, y) of a forward call, a request to
\* invert that y is answered from the cache with that x: nothing is raised,
\* the tensor returned is the input whose forward value is y's, and the
\* entry stays.
C4_InverseFromCache ==
    (last.op = "inv" /\ last.old[2] # None /\ last.y = last.old[2])
        => /\ last.raised = ""
           /\ last.ret = last.old[1]
           /\ last.ret \in Inputs
           /\ heap[last.y] = ValueAt(Callee, last.ret)
           /\ Callee.cached_x_y = last.old

C4_Witness ==
    /\ last.op = "inv"
    /\ last.y = last.old[2]
    /\ last.ret \in Inputs

C6_FreshIndependent ==
    [][ /\ \A j \in DOMAIN insts : j # last'.inst => insts'[j] = insts[j]
        /\ last'.op = "condition"
               => /\ last'.inst = Len(insts) + 1
                  /\ DOMAIN insts' = 1..(Len(insts) + 1)
                  /\ Empty(insts'[last'.inst])
                  /\ \A j \in DOMAIN insts : insts'[j] = insts[j]
                  /\ heap' = heap ]_vars

\* two engines of the same context, one with an entry, the other still empty
C6_Witness ==
    /\ Len(insts) = 2
    /\ insts[1].x0 = insts[2].x0
    /\ insts[1].alpha_prime = insts[2].alpha_prime
    /\ last.op = "forward"
    /\ last.inst = 2
    /\ last.called
    /\ Empty(insts[1])

\* C7 (as claimed): in every forward evaluation alpha > 0 and
\* alpha + beta = softplus(beta_prime) > 0, hence beta > -alpha.
C7_Invertibility ==
    last.called
        => /\ Alpha(Callee) > 0
           /\ Alpha(Callee) + Beta(Callee) = Softplus(Callee.beta_prime)
           /\ Softplus(Callee.beta_prime) > 0
           /\ Beta(Callee) > -Alpha(Callee)

\* C8: with fixed parameters, the three parts of every cache entry come from
\* one evaluation, and log_abs_det_jacobian(x, y) returns the
\* log-determinant at x and leaves x as the cached input, whatever y is.
C8_CacheConsistent ==
    /\ \A i \in DOMAIN insts : OneEvaluation(insts[i])
    /\ last.op = "ladj"
           => /\ CachedX(Callee) = last.x
              /\ last.logdet = LogDetAt(Callee, last.x)
              /\ last.logdet = Callee.cached_logDetJ

\* log_abs_det_jacobian with a y that is not the cached output
C8_Witness ==
    /\ last.op = "ladj"
    /\ last.old[2] # None
    /\ last.y # last.old[2]
    /\ last.logdet = LogDetAt(Callee, last.x)

\* C9: a forward or log_abs_det_jacobian call on a tensor that is another
\* object than the cached input, though equal to it in value, is a miss:
\* _call runs on it, it becomes the cached input and the cached output is a
\* new tensor.
C9_IdentityNotValue ==
    (/\ last.op \in {"forward", "ladj"}
     /\ last.old[1] # None
     /\ last.x # last.old[1]
     /\ heap[last.x] = heap[last.old[1]])
        => /\ last.called
           /\ CachedX(Callee) = last.x
           /\ CachedY(Callee) = Len(heap)
           /\ CachedY(Callee) # last.old[2]

C9_Witness ==
    /\ last.op = "ladj"
    /\ last.old[1] # None
    /\ last.x # last.old[1]
    /\ heap[last.x] = heap[last.old[1]]
    /\ last.y = last.old[2]
    /\ last.called

\* C10 (as claimed): whatever calls and parameter updates came before,
\* log_abs_det_jacobian(x, y) on a Radial returns the log-determinant at x
\* under the parameters the module holds at the time of the call.
C10_PresentParameters ==
    last.op = "ladj" => last.logdet = LogDetAt(Callee, last.x)

=============================================================================
